---- MODULE Spec2Model ----
(***************************************************************************)
(* The Redis-backed rate limiter of apps/core/rate_limiting.py.            *)
(*                                                                         *)
(* RedisRateLimiter.is_allowed reads the clock, derives the store key      *)
(* rate_limit:<key>:<(now - window) // window>, and sends one MULTI/EXEC   *)
(* batch (zremrangebyscore, zcard, zadd, expire) to the store.  Several    *)
(* request handlers run is_allowed concurrently; the store and the clock   *)
(* are the only shared state.  The log records every finished call in the  *)
(* order in which the store executed the batches.                          *)
(***************************************************************************)
EXTENDS Integers, Sequences, FiniteSets, Bags, TLC

\* ------------------------------------------------------------------ bounds
MaxLimit  == 3      \* the claims are checked for the limits 1..MaxLimit
MaxWindow == 2      \* windows are drawn from 1..MaxWindow seconds
MaxTicks  == 2      \* seconds the clock may advance
MaxCalls  == 3      \* is_allowed calls per behaviour
NumProcs  == 2      \* concurrent request handlers
MaxFails  == 1      \* store failures per behaviour
MaxClears == 2      \* clear_rate_limit calls per behaviour
MaxClearCalls == 2  \* is_allowed calls in a behaviour with clears

\* The rate-limit keys the callers pass (RedisThrottle.get_cache_key gives
\* f"user:{id}"); a key is the sequence of its ':'-separated pieces.
Keys == { <<"user", ":", "1">>, <<"user", ":", "2">> }

\* The clock starts late enough for now - window to be non-negative, as it
\* is for any real epoch time.
StartTime == MaxWindow

VARIABLES
    clock,      \* int(time.time()) as every handler and the store see it
    store,      \* redis: store key -> [zset, expireAt]
    window,     \* the window W every call is made with
    inflight,   \* bag of the calls that read the clock and queued their
                \* batch but have not run pipe.execute() yet: [key, now]
    log,        \* finished calls, in the order the store executed them
    throttle,   \* the throttle object RedisThrottle.__init__ was run on
    derived,    \* the rate-limit keys get_cache_key derived so far
    http,       \* the request being answered and its response
    err,        \* the exception given to custom_exception_handler and
                \* what the handler returned for it
    admin       \* the clear_rate_limit call or clear command in progress

vars ==
    <<clock, store, window, inflight, log, throttle, derived, http, err, admin>>

\* What the rate limiter itself never touches.
others == <<throttle, derived, http, err, admin>>

\* ------------------------------------------------------------ conversions
DigitChars == <<"0", "1", "2", "3", "4", "5", "6", "7", "8", "9">>

\* str(n) for an int: its decimal digits, after a '-' when n is negative
RECURSIVE Str(_)
Str(n) == IF n < 0 THEN <<"-">> \o Str(0 - n)
          ELSE IF n < 10 THEN <<DigitChars[n + 1]>>
          ELSE Str(n \div 10) \o <<DigitChars[(n % 10) + 1]>>

\* The start of the window taken as the time of the call itself.
WindowStartNow(t, w) == t

\* window_start = now - window
WindowStart(t, w) == t - w

\* RedisKey with the caller's key left out of the store key.
RedisKeyShared(k, t, w) ==
    <<"rate_limit", ":">> \o Str(WindowStart(t, w) \div w)

\* redis_key = f"rate_limit:{key}:{window_start // window}"
RedisKey(k, t, w) ==
    <<"rate_limit", ":">> \o k \o <<":">> \o Str(WindowStart(t, w) \div w)

\* ------------------------------------------------------- store operations
\* The sorted set stored under rk; a missing key is the empty set.
ZSet(s, rk) == IF rk \in DOMAIN s THEN s[rk].zset ELSE {}

\* pipe.zremrangebyscore(redis_key, 0, window_start)
ZRemRangeByScore(z, lo, hi) == { e \in z : ~(lo <= e.score /\ e.score <= hi) }

\* pipe.zcard(redis_key)
ZCard(z) == Cardinality(z)

\* pipe.zadd(redis_key, {str(now): now}): a sorted set holds each member
\* once; adding a member it already holds only replaces the score.
ZAdd(z, member, score) ==
    { e \in z : e.member # member } \cup { [member |-> member, score |-> score] }

\* Expire with the TTL left off: the key is written and never times out in
\* the span the model covers.
ExpireNever(z, at, w) == [zset |-> z, expireAt |-> at + w + MaxTicks + 1]

\* pipe.expire(redis_key, window): the key is deleted `w` seconds from the
\* moment the store executes the command.
Expire(z, at, w) == [zset |-> z, expireAt |-> at + w]

\* The store after the batch of one call ran on it at time `at`.
Batch(s, rk, t, w, at) ==
    LET trimmed == ZRemRangeByScore(ZSet(s, rk), 0, WindowStart(t, w))
        added   == ZAdd(trimmed, Str(t), t)
    IN  [x \in (DOMAIN s) \cup {rk} |->
            IF x = rk THEN Expire(added, at, w) ELSE s[x]]

\* CurrentCount with zcard queued after zadd: the reply counts the call itself.
CurrentCountAfterInsert(s, rk, t, w) ==
    ZCard(ZAdd(ZRemRangeByScore(ZSet(s, rk), 0, WindowStart(t, w)), Str(t), t))

\* results[1]: the zcard reply, taken after the trim and before the insert
CurrentCount(s, rk, t, w) ==
    ZCard(ZRemRangeByScore(ZSet(s, rk), 0, WindowStart(t, w)))

\* Keys whose TTL has run out at time t are gone.
Purge(s, t) == [x \in { y \in DOMAIN s : s[y].expireAt > t } |-> s[x]]

\* ------------------------------------------------------------ the decision
\* allowed = current_count < limit
Allowed(c, l) == c < l

Max(a, b) == IF a >= b THEN a ELSE b

\* Remaining without the 1 for the request being decided.
RemainingOffByOne(c, l) == IF Allowed(c, l) THEN Max(0, l - c) ELSE 0

\* remaining = max(0, limit - current_count - 1) if allowed else 0
Remaining(c, l) == IF Allowed(c, l) THEN Max(0, l - c - 1) ELSE 0

\* reset_time = window_start + window
ResetTime(t, w) == WindowStart(t, w) + w

\* 'retry_after': reset_time - now if not allowed else 0
RetryAfter(c, l, t, w) == IF ~Allowed(c, l) THEN ResetTime(t, w) - t ELSE 0

\* The dict is_allowed returns (lines 69-77), without the echoed identifier.
Decision(c, l, t, w) ==
    [ allowed     |-> Allowed(c, l),
      remaining   |-> Remaining(c, l),
      reset_time  |-> ResetTime(t, w),
      retry_after |-> RetryAfter(c, l, t, w),
      limit       |-> l,
      window      |-> w ]

\* The exception pipe.execute() raises when the store is unreachable;
\* is_allowed has no handler around it, so the caller sees it as raised.
StoreException == "redis.ConnectionError"

\* The typed failure of the error taxonomy: class ServiceUnavailableError,
\* default_code 'service_unavailable', status 503.
ServiceUnavailableError == "ServiceUnavailableError"

\* ------------------------------------------------------------------- Init
Times == StartTime..(StartTime + MaxTicks)

\* The limits a caller may pass as `limit`.
Limits == 1..MaxLimit

\* The locals of one call between reading the clock and pipe.execute().
Call(k, t) == [key |-> k, now |-> t]

TypeOK ==
    /\ clock \in Times
    /\ window \in 1..MaxWindow
    /\ IsABag(inflight)
    /\ BagToSet(inflight) \subseteq { Call(k, t) : k \in Keys, t \in Times }
    /\ BagCardinality(inflight) <= NumProcs
    /\ Len(log) <= MaxCalls

\* No throttle constructed, no key derived, no request in progress.
NoThrottle ==
    [ status |-> "none", rate |-> << >>, limit |-> 0, window |-> 0,
      exc |-> "", checked |-> FALSE, count |-> 0 ]

\* The decision slot of a request no throttle has decided yet.
NoDecision ==
    [ allowed |-> TRUE, remaining |-> 0, reset_time |-> 0, retry_after |-> 0,
      limit |-> 0, window |-> 0 ]

NoRequest ==
    [ stage     |-> "idle",
      limit     |-> 0,
      served    |-> 0,
      req       |-> << >>,
      denied    |-> FALSE,
      failed    |-> FALSE,
      decision  |-> NoDecision,
      status    |-> 0,
      body      |-> [strs |-> << >>, nums |-> << >>],
      headers   |-> << >>,
      exceeded  |-> FALSE,
      decorated |-> FALSE,
      mw        |-> "none" ]

\* No exception raised and none handled.
NoError ==
    [stage |-> "none", args |-> << >>, exc |-> << >>, result |-> << >>]

\* No clear in progress and none made.
NoAdmin ==
    [ pc |-> "idle", key |-> << >>, keys |-> {}, result |-> FALSE,
      startLog |-> 0, startQuiet |-> FALSE, clears |-> 0,
      last |-> [ key |-> << >>, keys |-> {}, result |-> FALSE,
                 raised |-> FALSE, quiet |-> FALSE, at |-> 0 ] ]

InitOthers ==
    /\ throttle = NoThrottle
    /\ derived = << >>
    /\ http = NoRequest
    /\ err = NoError
    /\ admin = NoAdmin

Init ==
    /\ clock = StartTime
    /\ store = << >>
    /\ window \in 1..MaxWindow
    /\ inflight = EmptyBag
    /\ log = << >>
    /\ InitOthers

Started == Len(log) + BagCardinality(inflight)

Fails == Cardinality({ i \in DOMAIN log : log[i].status = "raised" })

\* ---------------------------------------------------------------- actions
\* is_allowed, lines 41-60, in a free request handler: read the clock,
\* derive the key, queue the four commands on the pipeline.  Nothing has
\* reached the store yet.
Begin(k) ==
    /\ BagCardinality(inflight) < NumProcs
    /\ Started < MaxCalls
    /\ inflight' = inflight (+) SetToBag({Call(k, clock)})
    /\ UNCHANGED <<clock, store, window, log, others>>

\* is_allowed, lines 62-63: pipe.execute() runs the batch as one MULTI/EXEC
\* transaction and the call reads current_count from its zcard reply.  The
\* store is not touched again; lines 65-77 compute the returned dict from
\* current_count and the arguments (Decision below).
Execute(c) ==
    /\ BagIn(c, inflight)
    /\ LET rk == RedisKey(c.key, c.now, window)
           s2 == Batch(store, rk, c.now, window, clock)
       IN  /\ store' = s2
           /\ log' = Append(log,
                  [ key       |-> c.key,
                    now       |-> c.now,
                    rkey      |-> rk,
                    execAt    |-> clock,
                    status    |-> "returned",
                    count     |-> CurrentCount(store, rk, c.now, window),
                    cardAfter |-> ZCard(ZSet(s2, rk)),
                    exc       |-> "" ])
    /\ inflight' = inflight (-) SetToBag({c})
    /\ UNCHANGED <<clock, window, others>>

\* is_allowed, line 62, with the store unreachable: pipe.execute() raises
\* before the store has run anything and the exception leaves is_allowed
\* (there is no try/except in lines 41-77).
ExecuteFails(c) ==
    /\ BagIn(c, inflight)
    /\ Fails < MaxFails
    /\ log' = Append(log,
           [ key       |-> c.key,
             now       |-> c.now,
             rkey      |-> RedisKey(c.key, c.now, window),
             execAt    |-> clock,
             status    |-> "raised",
             count     |-> 0,
             cardAfter |-> 0,
             exc       |-> StoreException ])
    /\ inflight' = inflight (-) SetToBag({c})
    /\ UNCHANGED <<clock, store, window, others>>

\* One second passes; the store drops the keys whose TTL ran out.
Tick ==
    /\ clock < StartTime + MaxTicks
    /\ clock' = clock + 1
    /\ store' = Purge(store, clock + 1)
    /\ UNCHANGED <<window, inflight, log, others>>

Next ==
    \/ \E k \in Keys : Begin(k)
    \/ \E c \in BagToSet(inflight) : Execute(c)
    \/ \E c \in BagToSet(inflight) : ExecuteFails(c)
    \/ Tick

Spec == Init /\ [][Next]_vars

\* ------------------------------------------- is_allowed, any arguments
\* is_allowed checks neither `limit` nor `window`.  With window = 0 line 45
\* (window_start // window) raises ZeroDivisionError before anything is
\* sent to the store; every other value goes through lines 41-77 as usual.
ZeroDivisionError == "ZeroDivisionError"

\* The limits and windows a caller can pass, the invalid 0 included.
ArgLimits == 0..MaxLimit

ArgWindows == 0..MaxWindow

InitArgs ==
    /\ clock = StartTime
    /\ store = << >>
    /\ window \in ArgWindows
    /\ inflight = EmptyBag
    /\ log = << >>
    /\ InitOthers

\* is_allowed, lines 41-45, with window = 0.
BeginRaises(k) ==
    /\ window = 0
    /\ Len(log) < MaxCalls
    /\ log' = Append(log,
           [ key       |-> k,
             now       |-> clock,
             rkey      |-> << >>,
             execAt    |-> clock,
             status    |-> "raised",
             count     |-> 0,
             cardAfter |-> 0,
             exc       |-> ZeroDivisionError ])
    /\ UNCHANGED <<clock, store, window, inflight, others>>

NextArgs ==
    \/ window # 0 /\ Next
    \/ \E k \in Keys : BeginRaises(k)

SpecArgs == InitArgs /\ [][NextArgs]_vars

\* ------------------------------------------- constructing a throttle
\* A rate string is the sequence of its pieces: digits, '-', '/' and words.
Range(q) == { q[i] : i \in DOMAIN q }

\* rate.split('/')
RECURSIVE SplitOn(_, _)
SplitOn(q, sep) ==
    IF sep \notin Range(q) THEN <<q>>
    ELSE LET i == CHOOSE n \in DOMAIN q :
                      q[n] = sep /\ \A m \in 1..(n - 1) : q[m] # sep
         IN  <<SubSeq(q, 1, i - 1)>> \o SplitOn(SubSeq(q, i + 1, Len(q)), sep)

\* int(limit): an optional sign and at least one digit, or ValueError
Unsigned(q) == IF q # << >> /\ q[1] \in {"-", "+"} THEN Tail(q) ELSE q

IsInt(q) == Unsigned(q) # << >> /\ Range(Unsigned(q)) \subseteq Range(DigitChars)

DigitValue(ch) == CHOOSE d \in 0..9 : DigitChars[d + 1] = ch

RECURSIVE NatOf(_)
NatOf(q) == IF q = << >> THEN 0
            ELSE 10 * NatOf(SubSeq(q, 1, Len(q) - 1)) + DigitValue(q[Len(q)])

IntOf(q) == IF q[1] = "-" THEN 0 - NatOf(Unsigned(q)) ELSE NatOf(Unsigned(q))

\* period_map of _get_window_seconds
PeriodMap ==
    [ second |-> 1, minute |-> 60, hour |-> 3600, day |-> 86400,
      week |-> 604800 ]

\* _get_window_seconds with a default for periods it does not know.
GetWindowSecondsDefault(period) ==
    IF Len(period) = 1 /\ period[1] \in DOMAIN PeriodMap
    THEN [ok |-> TRUE, seconds |-> PeriodMap[period[1]]]
    ELSE [ok |-> TRUE, seconds |-> PeriodMap["hour"]]

\* _get_window_seconds: the seconds of the period, ValueError when the
\* period is not a key of period_map.
GetWindowSeconds(period) ==
    IF Len(period) = 1 /\ period[1] \in DOMAIN PeriodMap
    THEN [ok |-> TRUE, seconds |-> PeriodMap[period[1]]]
    ELSE [ok |-> FALSE, seconds |-> 0]

\* _parse_rate: ValueError without '/', when split('/') does not give
\* exactly two parts to unpack, and when int() rejects the first part.
ParseRate(rate) ==
    LET parts == SplitOn(rate, "/")
    IN  IF "/" \notin Range(rate) \/ Len(parts) # 2 \/ ~IsInt(parts[1])
        THEN [ok |-> FALSE, limit |-> 0, period |-> << >>]
        ELSE [ok |-> TRUE, limit |-> IntOf(parts[1]), period |-> parts[2]]

ValueError == "ValueError"

\* RedisThrottle.__init__: self.rate, then limit and window from the rate;
\* an exception of either step leaves __init__ and no throttle exists.
NewThrottle(rate) ==
    LET parsed == ParseRate(rate)
        secs   == GetWindowSeconds(parsed.period)
    IN  IF parsed.ok /\ secs.ok
        THEN [ status |-> "ok", rate |-> rate, limit |-> parsed.limit,
               window |-> secs.seconds, exc |-> "", checked |-> FALSE,
               count |-> 0 ]
        ELSE [ status |-> "raised", rate |-> rate, limit |-> 0, window |-> 0,
               exc |-> ValueError, checked |-> FALSE, count |-> 0 ]

\* The rate strings tried: a count part, then nothing, one '/' and a period
\* part, or two '/'.
CountParts ==
    { << >>, <<"x">>, <<"1">>, <<"5">>, <<"1", "2">>, <<"6", "0">>,
      <<"1", "0", "0">>, <<"-", "5">> }

PeriodParts ==
    { << >>, <<"second">>, <<"minute">>, <<"hour">>, <<"day">>, <<"week">>,
      <<"fortnight">>, <<"h">> }

TailParts ==
    { << >> } \cup PeriodParts
        \cup { <<"/">> \o p : p \in PeriodParts }
        \cup { <<"/">> \o p \o <<"/">> \o r :
                 p \in { <<"hour">>, <<"1">> }, r \in { <<"hour">>, <<"day">> } }

RateStrings == { c \o t : c \in CountParts, t \in TailParts }

\* throttle = SomeThrottle(rate=...)
Construct(rate) ==
    /\ throttle.status = "none"
    /\ throttle' = NewThrottle(rate)
    /\ UNCHANGED <<clock, store, window, inflight, log, derived, http, err, admin>>

\* allow_request (lines 139-153) on the constructed throttle: one
\* is_allowed call with the throttle's limit and window; the result is kept
\* in self.throttle_result.
AllowRequest(k) ==
    /\ throttle.status = "ok"
    /\ LET rk == RedisKey(k, clock, throttle.window)
       IN  /\ store' = Batch(store, rk, clock, throttle.window, clock)
           /\ throttle' =
                  [throttle EXCEPT
                      !.checked = TRUE,
                      !.count = CurrentCount(store, rk, clock, throttle.window)]
    /\ UNCHANGED <<clock, window, inflight, log, derived, http, err, admin>>

NextConfig ==
    \/ \E rate \in RateStrings : Construct(rate)
    \/ \E k \in Keys : AllowRequest(k)

SpecConfig == Init /\ [][NextConfig]_vars

\* ------------------------------------------------- deriving the keys
\* A request as get_cache_key sees it: request.user.is_authenticated,
\* request.user.id, get_ident(request), request.method and request.path.
\* get_ident gives the X-Forwarded-For header with the blanks removed when
\* the request has one, else REMOTE_ADDR; header and path are the client's
\* text and may hold ':' (as the pieces <<..., ":", ...>>).
Idents ==
    { <<"10.0.0.1">>, <<"10.0.0.2">>, <<"c">>, <<"b", ":", "ip", ":", "c">> }

Paths == { <<"/api/a">>, <<"/api/a", ":", "ip", ":", "b">> }

Methods == {"GET", "POST"}

UserIds == {1, 2}

Requests ==
    { [auth |-> TRUE, id |-> u, ident |-> <<"10.0.0.1">>, method |-> m,
       path |-> p] : u \in UserIds, m \in Methods, p \in Paths }
    \cup
    { [auth |-> FALSE, id |-> 0, ident |-> a, method |-> m, path |-> p] :
         a \in Idents, m \in Methods, p \in Paths }

\* The throttle classes, by the scope they serve.
Scopes == {"user", "anon", "endpoint", "notification", "telegram"}

\* f"user:{request.user.id}" and f"ip:{self.get_ident(request)}"
UserKey(req) == <<"user", ":">> \o Str(req.id)

IpKey(req) == <<"ip", ":">> \o req.ident

\* get_cache_key of UserRateThrottle (lines 168-171), AnonRateThrottle
\* (180-181), APIEndpointThrottle (190-195), NotificationThrottle (204-207)
\* and TelegramWebhookThrottle (216-218).
GetCacheKey(scope, req) ==
    CASE scope = "user" ->
           IF req.auth THEN UserKey(req) ELSE IpKey(req)
      [] scope = "anon" ->
           IpKey(req)
      [] scope = "endpoint" ->
           LET endpoint == <<req.method, ":">> \o req.path
           IN  <<"endpoint", ":">> \o endpoint \o <<":">> \o
                   (IF req.auth THEN UserKey(req) ELSE IpKey(req))
      [] scope = "notification" ->
           <<"notification", ":">> \o
               (IF req.auth THEN UserKey(req) ELSE IpKey(req))
      [] scope = "telegram" ->
           <<"telegram", ":", "webhook", ":">> \o IpKey(req)

\* allow_request of the throttle of `scope` on request `req`: the key from
\* get_cache_key, then one is_allowed call on it.  The derivation is kept
\* with the count the call read.
Derive(scope, req) ==
    /\ Len(derived) < 2
    /\ LET k  == GetCacheKey(scope, req)
           rk == RedisKey(k, clock, window)
       IN  /\ store' = Batch(store, rk, clock, window, clock)
           /\ derived' = Append(derived,
                  [ scope |-> scope,
                    req   |-> req,
                    key   |-> k,
                    rkey  |-> rk,
                    count |-> CurrentCount(store, rk, clock, window) ])
    /\ UNCHANGED <<clock, window, inflight, log, throttle, http, err, admin>>

NextKeys == \E scope \in Scopes, req \in Requests : Derive(scope, req)

SpecKeys == Init /\ [][NextKeys]_vars

\* ------------------------------------------------- request and response
\* One request at a time goes through a throttled view and then, as a
\* response, through RateLimitExceededMiddleware and
\* RateLimitHeadersMiddleware.  The MIDDLEWARE list is in settings/base.py,
\* which is not part of the sources, so the two run in either order.
\* http.limit is the limit the configured rates give every throttle.
HttpPaths == { <<"/api/a">>, <<"/admin/">> }

\* request.path.startswith('/api/')
StartsWithApi(path) == Head(path) = "/api/a"

HttpRequests ==
    { [auth |-> a, id |-> IF a THEN 1 ELSE 0, ident |-> <<"10.0.0.1">>,
       method |-> "GET", path |-> p] : a \in BOOLEAN, p \in HttpPaths }

\* The throttle of the view: NotificationThrottle (notifications/views.py)
\* or the default UserRateThrottle.
ViewScopes == {"notification", "user"}

\* UserRateThrottle if request.user.is_authenticated else AnonRateThrottle
InfoKey(req) == GetCacheKey(IF req.auth THEN "user" ELSE "anon", req)

\* What limiter.is_allowed returns for key k now, and the store after it.
Check(k) ==
    Decision(CurrentCount(store, RedisKey(k, clock, window), clock, window),
             http.limit, clock, window)

Checked(k) == Batch(store, RedisKey(k, clock, window), clock, window, clock)

\* A response body as JSON: the string members and the number members, by
\* their path in the document.  The payload of a view is left out.
ViewBody == [strs |-> << >>, nums |-> << >>]

\* handle_generic_exception, lines 106-112
GenericErrorBody ==
    [ strs |-> ("error.code" :> <<"internal_server_error">>)
            @@ ("error.message" :>
                   <<"An unexpected error occurred. Please try again later.">>)
            @@ ("error.type" :> <<"InternalServerError">>),
      nums |-> << >> ]

\* handle_drf_exception on the Throttled(wait) that the framework raises
\* when allow_request returns False; wait is throttle.wait().
ThrottledBody(wait) ==
    [ strs |-> ("error.code" :> <<"throttled">>)
            @@ ("error.message" :>
                   <<"Request was throttled. Expected available in ">>
                   \o Str(wait) \o <<" seconds.">>)
            @@ ("error.type" :> <<"Throttled">>),
      nums |-> IF wait # 0 THEN ("error.retry_after" :> wait) ELSE << >> ]

\* The JsonResponse of RateLimitExceededMiddleware, lines 55-62
ExceededBody(info) ==
    [ strs |-> ("error" :> <<"Rate limit exceeded">>)
            @@ ("message" :>
                   <<"You have exceeded the rate limit of ">>
                   \o Str(info.limit) \o <<" requests per ">>
                   \o Str(info.window) \o <<" seconds">>),
      nums |-> ("retry_after" :> info.retry_after)
            @@ ("limit" :> info.limit)
            @@ ("remaining" :> info.remaining)
            @@ ("reset_time" :> info.reset_time) ]

\* RateLimitHeadersMiddleware, lines 25-30
RateHeaders(info) ==
    ("X-RateLimit-Limit" :> info.limit)
    @@ ("X-RateLimit-Remaining" :> info.remaining)
    @@ ("X-RateLimit-Reset" :> info.reset_time)
    @@ (IF info.retry_after > 0
        THEN ("Retry-After" :> info.retry_after) ELSE << >>)

InitHttp ==
    /\ clock = StartTime
    /\ store = << >>
    /\ window \in 1..MaxWindow
    /\ inflight = EmptyBag
    /\ log = << >>
    /\ throttle = NoThrottle
    /\ derived = << >>
    /\ err = NoError
    /\ admin = NoAdmin
    /\ \E l \in Limits : http = [NoRequest EXCEPT !.limit = l]

\* The view: allow_request of its throttle, then the view itself or the
\* exception handler.  `up` says whether the store answers.
ViewRequest(req, scope, up) ==
    /\ http.stage \in {"idle", "done"}
    /\ http.served < MaxCalls
    /\ LET k == GetCacheKey(scope, req)
           d == Check(k)
           fresh == [NoRequest EXCEPT !.stage = "response",
                                      !.limit = http.limit,
                                      !.served = http.served + 1,
                                      !.req = req]
       IN  IF ~up
           THEN \* pipe.execute() raises; custom_exception_handler ends in
                \* handle_generic_exception
                /\ store' = store
                /\ http' = [fresh EXCEPT !.failed = TRUE,
                                         !.status = 500,
                                         !.body = GenericErrorBody]
           ELSE /\ store' = Checked(k)
                /\ http' = IF d.allowed
                           THEN [fresh EXCEPT !.decision = d,
                                              !.status = 200,
                                              !.body = ViewBody]
                           ELSE [fresh EXCEPT !.decision = d,
                                              !.denied = TRUE,
                                              !.status = 429,
                                              !.body =
                                                  ThrottledBody(d.retry_after)]
    /\ UNCHANGED <<clock, window, inflight, log, throttle, derived, err, admin>>

\* A middleware that answers 503 when its rate check raises.
OnCheckRaisedUnavailable(h) ==
    [h EXCEPT !.status = 503,
              !.body = [ strs |-> "error.code" :> <<"service_unavailable">>,
                         nums |-> << >> ]]

\* except Exception: pass, then return response (middleware.py lines 32-36
\* and 64-67): the response the middleware was given.
OnCheckRaised(h) == h

\* RateLimitExceededMiddleware.process_response, lines 44-67
ExceededMw(up) ==
    /\ http.stage = "response"
    /\ ~http.exceeded
    /\ IF http.status # 429
       THEN /\ store' = store
            /\ http' = [http EXCEPT !.exceeded = TRUE, !.mw = "skipped"]
       ELSE IF ~up
       THEN /\ store' = store
            /\ http' = [OnCheckRaised(http) EXCEPT !.exceeded = TRUE,
                                                   !.failed = TRUE,
                                                   !.mw = "raised"]
       ELSE /\ store' = Checked(InfoKey(http.req))
            /\ http' = IF StartsWithApi(http.req.path)
                       THEN [http EXCEPT !.exceeded = TRUE,
                                         !.mw = "checked",
                                         !.status = 429,
                                         !.body =
                                             ExceededBody(Check(InfoKey(http.req))),
                                         !.headers = << >>]
                       ELSE [http EXCEPT !.exceeded = TRUE,
                                         !.mw = "checked"]
    /\ UNCHANGED <<clock, window, inflight, log, throttle, derived, err, admin>>

\* RateLimitHeadersMiddleware.process_response, lines 15-36
HeadersMw(up) ==
    /\ http.stage = "response"
    /\ ~http.decorated
    /\ IF ~up
       THEN /\ store' = store
            /\ http' = [OnCheckRaised(http) EXCEPT !.decorated = TRUE,
                                                   !.failed = TRUE,
                                                   !.mw = "raised"]
       ELSE /\ store' = Checked(InfoKey(http.req))
            /\ http' = [http EXCEPT !.decorated = TRUE,
                                    !.mw = "checked",
                                    !.headers =
                                        RateHeaders(Check(InfoKey(http.req)))
                                        @@ http.headers]
    /\ UNCHANGED <<clock, window, inflight, log, throttle, derived, err, admin>>

\* The response leaves the middleware chain for the client.
Respond ==
    /\ http.stage = "response"
    /\ http.exceeded
    /\ http.decorated
    /\ http' = [http EXCEPT !.stage = "done"]
    /\ UNCHANGED <<clock, store, window, inflight, log, throttle, derived, err,
                 admin>>

NextHttp ==
    \/ \E req \in HttpRequests, scope \in ViewScopes, up \in BOOLEAN :
           ViewRequest(req, scope, up)
    \/ \E up \in BOOLEAN : ExceededMw(up)
    \/ \E up \in BOOLEAN : HeadersMw(up)
    \/ Respond
    \/ Tick

SpecHttp == InitHttp /\ [][NextHttp]_vars

\* ------------------------------------------------------ clear_rate_limit
\* The keys that are cleared and checked: the client addresses a::b and
\* a::b:c (IPv6), as AnonRateThrottle derives them.
ClearKeys ==
    { <<"ip", ":", "a", ":", "", ":", "b">>,
      <<"ip", ":", "a", ":", "", ":", "b", ":", "c">> }

\* pattern = f"rate_limit:{key}:*", line 258, up to the '*'
Pattern(k) == <<"rate_limit", ":">> \o k \o <<":">>

\* The glob match of redis KEYS: '*' stands for any text, the rest of the
\* pattern for itself (the keys here hold none of * ? [ ] \).
Matches(rk, k) ==
    /\ Len(rk) >= Len(Pattern(k))
    /\ SubSeq(rk, 1, Len(Pattern(k))) = Pattern(k)

\* KEYS for the store key of the current time bucket only.
KeysMatchingBucket(s, k) ==
    { rk \in DOMAIN s : rk = RedisKey(k, clock, window) }

\* redis_client.keys(pattern), line 259
KeysMatching(s, k) == { rk \in DOMAIN s : Matches(rk, k) }

\* DEL of the first key only.
DeleteOne(s, ks) ==
    IF ks = {} THEN s
    ELSE LET first == CHOOSE rk \in ks : \A other \in ks : Len(rk) <= Len(other)
         IN  [x \in (DOMAIN s) \ {first} |-> s[x]]

\* redis_client.delete(*keys), line 261: the keys that still exist go.
Delete(s, ks) == [x \in (DOMAIN s) \ ks |-> s[x]]

\* What clear_rate_limit returns whatever happened.
ClearOutcomeAlwaysTrue(ok) == TRUE

\* return True at line 262, return False in the handler at line 264
ClearOutcome(ok) == ok

\* rk is a store key rate_limit:<k>:<bucket> of key k: the bucket is a
\* number.
IsStoreKeyOf(rk, k) ==
    /\ Matches(rk, k)
    /\ Len(rk) > Len(Pattern(k))
    /\ Range(SubSeq(rk, Len(Pattern(k)) + 1, Len(rk)))
           \subseteq Range(DigitChars)

StoreKeysOf(s, k) == { rk \in DOMAIN s : IsStoreKeyOf(rk, k) }

\* No is_allowed call was in flight or ran since the clear began.
Quiet ==
    /\ admin.startQuiet
    /\ admin.startLog = Len(log)
    /\ inflight = EmptyBag

\* A clear_rate_limit call that returned: its key, the store keys it found,
\* whether the store answered, and how many calls the log held then.
ClearEntry(k, ks, ok, quiet) ==
    [ key    |-> k,
      keys   |-> ks,
      result |-> ClearOutcome(ok),
      raised |-> ~ok,
      quiet  |-> quiet,
      at     |-> Len(log) ]

\* clear_rate_limit(k), lines 255-260 (and 262 when no key matched): the
\* KEYS command.  `up` says whether the store answers.
ClearEnumerate(k, up) ==
    /\ admin.pc \in {"idle", "done"}
    /\ admin.clears < MaxClears
    /\ LET ks == KeysMatching(store, k)
           begun == [admin EXCEPT !.key = k,
                                  !.clears = admin.clears + 1,
                                  !.keys = {},
                                  !.result = FALSE,
                                  !.startLog = Len(log),
                                  !.startQuiet = (inflight = EmptyBag)]
       IN  IF up /\ ks # {}
           THEN admin' = [begun EXCEPT !.pc = "enumerated", !.keys = ks]
           ELSE admin' = [begun EXCEPT
                              !.pc = "done",
                              !.result = ClearOutcome(up),
                              !.last =
                                  ClearEntry(k, {}, up, inflight = EmptyBag)]
    /\ UNCHANGED <<clock, store, window, inflight, log, throttle, derived,
                   http, err>>

\* clear_rate_limit, lines 261-264: the DEL command and the return.
ClearDelete(up) ==
    /\ admin.pc = "enumerated"
    /\ store' = IF up THEN Delete(store, admin.keys) ELSE store
    /\ admin' = [admin EXCEPT
                     !.pc = "done",
                     !.result = ClearOutcome(up),
                     !.last = ClearEntry(admin.key, admin.keys, up, Quiet)]
    /\ UNCHANGED <<clock, window, inflight, log, throttle, derived, http,
                   err>>

\* One request handler runs beside the clear.
NextClear ==
    \/ \E k \in ClearKeys :
           inflight = EmptyBag /\ Started < MaxClearCalls /\ Begin(k)
    \/ \E c \in BagToSet(inflight) : Execute(c)
    \/ Tick
    \/ \E k \in ClearKeys, up \in BOOLEAN : ClearEnumerate(k, up)
    \/ \E up \in BOOLEAN : ClearDelete(up)

SpecClear == Init /\ [][NextClear]_vars

\* ------------------------------------------- manage.py rate_limit clear
\* The auth_user table: one user, id 1, username alice.
Users == { [id |-> 1, username |-> <<"alice">>] }

\* A selector that was not given on the command line (None).
NotGiven == << >>

\* --user takes an id or a username, --ip an address, --key a key.
UserOptions == { NotGiven, <<"1">>, <<"alice">>, <<"bob">> }

IpOptions == { NotGiven, <<"10.0.0.1">> }

KeyOptions == { NotGiven, <<"ip", ":", "10.0.0.2">> }

\* The keys the requests before the command were checked under.
CommandKeys ==
    { <<"user", ":", "1">>, <<"ip", ":", "10.0.0.1">>,
      <<"ip", ":", "10.0.0.2">> }

\* options['user'].isdigit()
IsDigit(text) == text # << >> /\ IsInt(text) /\ Unsigned(text) = text

\* User.objects.get(id=int(...)) or User.objects.get(username=...), lines
\* 64-67: the users found (none: User.DoesNotExist).
FindUser(text) ==
    IF IsDigit(text)
    THEN { u \in Users : u.id = IntOf(text) }
    ELSE { u \in Users : u.username = text }

\* No command running.
NoCommand ==
    [ pc |-> "idle", options |-> << >>, cleared |-> {}, failed |-> {},
      error |-> "" ]

\* clear_rate_limit(key) as one step: the store after it, and what it
\* returned.
Cleared(s, k, up) == IF up THEN Delete(s, KeysMatching(s, k)) ELSE s

InitCommand ==
    /\ clock = StartTime
    /\ store = << >>
    /\ window \in 1..MaxWindow
    /\ inflight = EmptyBag
    /\ log = << >>
    /\ throttle = NoThrottle
    /\ derived = << >>
    /\ http = NoRequest
    /\ err = NoError
    /\ admin = NoCommand

\* handle, lines 48-52: the command starts with its options.
CmdStart(user, ip, key) ==
    /\ admin.pc = "idle"
    /\ inflight = EmptyBag
    /\ admin' = [NoCommand EXCEPT
                     !.pc = "user",
                     !.options = [user |-> user, ip |-> ip, key |-> key]]
    /\ UNCHANGED <<clock, store, window, inflight, log, throttle, derived,
                   http, err>>

\* clear_rate_limits, lines 62-77
CmdUser(up) ==
    /\ admin.pc = "user"
    /\ IF admin.options.user = NotGiven
       THEN /\ admin' = [admin EXCEPT !.pc = "ip"]
            /\ store' = store
       ELSE IF FindUser(admin.options.user) = {}
       THEN \* raise CommandError(...)
            /\ admin' = [admin EXCEPT !.pc = "aborted",
                                      !.error = "CommandError"]
            /\ store' = store
       ELSE LET user == CHOOSE u \in FindUser(admin.options.user) : TRUE
                key  == <<"user", ":">> \o Str(user.id)
            IN  /\ store' = Cleared(store, key, up)
                /\ admin' = IF ClearOutcome(up)
                            THEN [admin EXCEPT
                                      !.pc = "ip",
                                      !.cleared = admin.cleared \cup {"user"}]
                            ELSE [admin EXCEPT
                                      !.pc = "ip",
                                      !.failed = admin.failed \cup {"user"}]
    /\ UNCHANGED <<clock, window, inflight, log, throttle, derived, http,
                   err>>

\* clear_rate_limits, lines 79-86
CmdIp(up) ==
    /\ admin.pc = "ip"
    /\ IF admin.options.ip = NotGiven
       THEN /\ admin' = [admin EXCEPT !.pc = "key"]
            /\ store' = store
       ELSE /\ store' = Cleared(store, <<"ip", ":">> \o admin.options.ip, up)
            /\ admin' = IF ClearOutcome(up)
                        THEN [admin EXCEPT
                                  !.pc = "key",
                                  !.cleared = admin.cleared \cup {"ip"}]
                        ELSE [admin EXCEPT
                                  !.pc = "key",
                                  !.failed = admin.failed \cup {"ip"}]
    /\ UNCHANGED <<clock, window, inflight, log, throttle, derived, http,
                   err>>

\* clear_rate_limits, lines 88-94
CmdKey(up) ==
    /\ admin.pc = "key"
    /\ IF admin.options.key = NotGiven
       THEN /\ admin' = [admin EXCEPT !.pc = "all"]
            /\ store' = store
       ELSE /\ store' = Cleared(store, admin.options.key, up)
            /\ admin' = IF ClearOutcome(up)
                        THEN [admin EXCEPT
                                  !.pc = "all",
                                  !.cleared = admin.cleared \cup {"key"}]
                        ELSE [admin EXCEPT
                                  !.pc = "all",
                                  !.failed = admin.failed \cup {"key"}]
    /\ UNCHANGED <<clock, window, inflight, log, throttle, derived, http,
                   err>>

\* clear_rate_limits, lines 96-107: with no selector, every rate_limit:* key
CmdAll(up) ==
    /\ admin.pc = "all"
    /\ IF \/ admin.options.user # NotGiven
          \/ admin.options.ip # NotGiven
          \/ admin.options.key # NotGiven
       THEN /\ admin' = [admin EXCEPT !.pc = "done"]
            /\ store' = store
       ELSE IF ~up
       THEN \* raise CommandError(...)
            /\ admin' = [admin EXCEPT !.pc = "aborted",
                                      !.error = "CommandError"]
            /\ store' = store
       ELSE /\ store' = Delete(store, DOMAIN store)
            /\ admin' = IF DOMAIN store # {}
                        THEN [admin EXCEPT !.pc = "done",
                                           !.cleared = {"all"}]
                        ELSE [admin EXCEPT !.pc = "done"]
    /\ UNCHANGED <<clock, window, inflight, log, throttle, derived, http,
                   err>>

\* The requests checked before the command runs, then the command.
NextCommand ==
    \/ \E k \in CommandKeys :
           /\ admin.pc = "idle"
           /\ inflight = EmptyBag
           /\ Started < MaxClearCalls
           /\ Begin(k)
    \/ \E c \in BagToSet(inflight) : Execute(c)
    \/ admin.pc = "idle" /\ Tick
    \/ \E user \in UserOptions, ip \in IpOptions, key \in KeyOptions :
           CmdStart(user, ip, key)
    \/ \E up \in BOOLEAN : CmdUser(up)
    \/ \E up \in BOOLEAN : CmdIp(up)
    \/ \E up \in BOOLEAN : CmdKey(up)
    \/ \E up \in BOOLEAN : CmdAll(up)

SpecCommand == InitCommand /\ [][NextCommand]_vars

\* ------------------------------------------------------- the exceptions
\* An optional argument: None (of a text or dict, of a number), or a value.
None == [given |-> FALSE, value |-> << >>]

NoInt == [given |-> FALSE, value |-> 0]

Some(v) == [given |-> TRUE, value |-> v]

\* Python truth of an optional text or dict, and of an optional number:
\* None, '', {} and 0 are false.
Truthy(opt) == opt.given /\ opt.value # << >>

TruthyInt(opt) == opt.given /\ opt.value # 0

\* status_code, default_code and default_detail of NotiAPIException and its
\* subclasses, exceptions.py lines 12-130.
ErrorClasses ==
    [ NotiAPIException |->
          [ status_code |-> 400, default_code |-> "error",
            default_detail |-> <<"A server error occurred.">> ],
      ValidationError |->
          [ status_code |-> 400, default_code |-> "validation_error",
            default_detail |-> <<"Invalid input.">> ],
      AuthenticationError |->
          [ status_code |-> 401, default_code |-> "authentication_failed",
            default_detail |->
                <<"Authentication credentials were not provided.">> ],
      PermissionError |->
          [ status_code |-> 403, default_code |-> "permission_denied",
            default_detail |->
                <<"You do not have permission to perform this action.">> ],
      NotFoundError |->
          [ status_code |-> 404, default_code |-> "not_found",
            default_detail |-> <<"The requested resource was not found.">> ],
      ConflictError |->
          [ status_code |-> 409, default_code |-> "conflict",
            default_detail |->
                <<"The request conflicts with the current state of the resource.">> ],
      RateLimitError |->
          [ status_code |-> 429, default_code |-> "rate_limit_exceeded",
            default_detail |->
                <<"Rate limit exceeded. Please try again later.">> ],
      ServiceUnavailableError |->
          [ status_code |-> 503, default_code |-> "service_unavailable",
            default_detail |->
                <<"Service temporarily unavailable. Please try again later.">> ],
      NotificationError |->
          [ status_code |-> 400, default_code |-> "notification_error",
            default_detail |-> <<"Notification error occurred.">> ],
      TelegramBotError |->
          [ status_code |-> 400, default_code |-> "telegram_bot_error",
            default_detail |-> <<"Telegram bot error occurred.">> ],
      DatabaseError |->
          [ status_code |-> 500, default_code |-> "database_error",
            default_detail |-> <<"Database error occurred.">> ],
      ExternalServiceError |->
          [ status_code |-> 502, default_code |-> "external_service_error",
            default_detail |-> <<"External service error occurred.">> ] ]

NotiClasses == DOMAIN ErrorClasses

\* The constructor arguments: detail, field_errors (ValidationError),
\* retry_after (RateLimitError), status_code (the classes that keep
\* NotiAPIException.__init__).
ErrorArgs(class, detail, fieldErrors, retryAfter, statusCode) ==
    [ class |-> class, detail |-> detail, field_errors |-> fieldErrors,
      retry_after |-> retryAfter, status_code |-> statusCode ]

\* An exception object.  family tells which isinstance test of
\* custom_exception_handler it passes first.
Exception(family, class, status, code, detail) ==
    [ family      |-> family,
      class       |-> class,
      status_code |-> status,
      default_code |-> code,
      detail      |-> detail,
      has_field_errors |-> FALSE,
      field_errors |-> << >>,
      has_retry_after |-> FALSE,
      retry_after |-> NoInt,
      wait        |-> NoInt,
      message_dict |-> None ]

\* The constructor that drops the detail it is given.
NewErrorDefaultDetail(a) ==
    LET cls == ErrorClasses[a.class]
    IN  [ Exception("noti", a.class, cls.status_code, cls.default_code,
                    cls.default_detail)
          EXCEPT !.has_field_errors = (a.class = "ValidationError"),
                 !.field_errors =
                     IF a.class = "ValidationError" /\ Truthy(a.field_errors)
                     THEN a.field_errors.value ELSE << >>,
                 !.has_retry_after = (a.class = "RateLimitError"),
                 !.retry_after =
                     IF a.class = "RateLimitError"
                     THEN a.retry_after ELSE NoInt ]

\* The __init__ chain of a NotiAPIException subclass, exceptions.py lines
\* 20-23, 34-36, 83-85, ending in APIException.__init__: detail None gives
\* default_detail.  has_field_errors and has_retry_after say whether the
\* object has the attribute (hasattr).
NewError(a) ==
    LET cls == ErrorClasses[a.class]
    IN  [ Exception("noti", a.class,
                    IF TruthyInt(a.status_code)
                    THEN a.status_code.value ELSE cls.status_code,
                    cls.default_code,
                    IF a.detail.given
                    THEN a.detail.value ELSE cls.default_detail)
          EXCEPT !.has_field_errors = (a.class = "ValidationError"),
                 !.field_errors =
                     IF a.class = "ValidationError" /\ Truthy(a.field_errors)
                     THEN a.field_errors.value ELSE << >>,
                 !.has_retry_after = (a.class = "RateLimitError"),
                 !.retry_after =
                     IF a.class = "RateLimitError"
                     THEN a.retry_after ELSE NoInt ]

\* The arguments the exceptions are constructed with.
Details == { None, Some(<<"Test validation error">>) }

FieldErrorArgs ==
    { None, Some(<< >>), Some("field" :> << <<"Error message">> >>) }

RetryAfterArgs == { NoInt, Some(0), Some(60) }

StatusArgs == { NoInt, Some(418) }

NotiArgs ==
    { ErrorArgs("ValidationError", d, f, NoInt, NoInt) :
          d \in Details, f \in FieldErrorArgs }
    \cup
    { ErrorArgs("RateLimitError", d, None, r, NoInt) :
          d \in Details, r \in RetryAfterArgs }
    \cup
    { ErrorArgs(c, d, None, NoInt, sc) :
          c \in NotiClasses \ {"ValidationError", "RateLimitError"},
          d \in Details, sc \in StatusArgs }

\* The exceptions of the framework and of the runtime that reach the
\* handler: django ValidationError with and without message_dict, django
\* PermissionDenied with and without a message, APIException subclasses of
\* the framework, anything else.
ForeignExceptions ==
    { [ Exception("django_validation", "DjangoValidationError", 0, "",
                  <<"Enter a valid value.">>)
        EXCEPT !.message_dict = md] :
          md \in { None, Some("name" :> << <<"This field is required.">> >>) } }
    \cup
    { Exception("django_permission", "PermissionDenied", 0, "", text) :
          text \in { << >>, <<"Not yours.">> } }
    \cup
    { [ Exception("drf", "Throttled", 429, "throttled",
                  <<"Request was throttled.">>)
        EXCEPT !.wait = w] : w \in { NoInt, Some(30) } }
    \cup
    { Exception("drf", "NotAuthenticated", 401, "not_authenticated",
                <<"Authentication credentials were not provided.">>),
      Exception("drf", "ParseError", 400, "parse_error",
                <<"Malformed request.">>),
      Exception("other", StoreException, 0, "", <<"Connection refused.">>),
      Exception("other", "KeyError", 0, "", <<"window">>) }

\* create_error_response, exceptions.py lines 162-189 (the request has no id)
CreateErrorResponse(exc) ==
    [ kind   |-> "JsonResponse",
      status |-> exc.status_code,
      body   |-> [ strs |-> ("error.code" :> <<exc.default_code>>)
                         @@ ("error.message" :> exc.detail)
                         @@ ("error.type" :> <<exc.class>>),
                   nums |-> IF exc.has_retry_after
                               /\ TruthyInt(exc.retry_after)
                            THEN "error.retry_after" :> exc.retry_after.value
                            ELSE << >> ],
      fields |-> IF exc.has_field_errors THEN exc.field_errors ELSE << >>,
      value  |-> << >> ]

\* handle_drf_exception, exception_handler.py lines 62-93 (detail a string)
HandleDrfException(exc) ==
    [ kind   |-> "JsonResponse",
      status |-> exc.status_code,
      body   |-> [ strs |-> ("error.code" :> <<exc.default_code>>)
                         @@ ("error.message" :> exc.detail)
                         @@ ("error.type" :> <<exc.class>>),
                   nums |-> IF TruthyInt(exc.wait)
                            THEN "error.retry_after" :> exc.wait.value
                            ELSE << >> ],
      fields |-> << >>,
      value  |-> << >> ]

\* handle_generic_exception, exception_handler.py lines 96-123
HandleGenericException(exc) ==
    [ kind   |-> "JsonResponse",
      status |-> 500,
      body   |-> GenericErrorBody,
      fields |-> << >>,
      value  |-> << >> ]

\* A return value that is an exception object, not a response.
ReturnedException(exc) ==
    [ kind   |-> "exception",
      status |-> 0,
      body   |-> [strs |-> << >>, nums |-> << >>],
      fields |-> << >>,
      value  |-> exc ]

\* handle_validation_error, exceptions.py lines 133-152: returns a
\* ValidationError object
HandleValidationError(exc) ==
    IF exc.message_dict.given
    THEN NewError(ErrorArgs("ValidationError", Some(<<"Validation failed">>),
                            Some(exc.message_dict.value), NoInt, NoInt))
    ELSE NewError(ErrorArgs("ValidationError", Some(exc.detail), None, NoInt,
                            NoInt))

\* handle_permission_denied, exceptions.py lines 155-159: returns a
\* PermissionError object
HandlePermissionDenied(exc) ==
    NewError(ErrorArgs("PermissionError",
                       Some(IF exc.detail # << >>
                            THEN exc.detail ELSE <<"Permission denied">>),
                       None, NoInt, NoInt))

\* custom_exception_handler, exception_handler.py lines 21-59
CustomExceptionHandler(exc) ==
    CASE exc.family = "django_validation" ->
           ReturnedException(HandleValidationError(exc))
      [] exc.family = "django_permission" ->
           ReturnedException(HandlePermissionDenied(exc))
      [] exc.family = "noti" -> CreateErrorResponse(exc)
      [] exc.family = "drf" -> HandleDrfException(exc)
      [] OTHER -> HandleGenericException(exc)

\* A NotiAPIException is constructed and raised in a view.
RaiseNoti(a) ==
    /\ err.stage = "none"
    /\ err' = [err EXCEPT !.stage = "raised", !.args = a, !.exc = NewError(a)]
    /\ UNCHANGED <<clock, store, window, inflight, log, throttle, derived,
                   http, admin>>

\* Another exception is raised in a view.
RaiseForeign(exc) ==
    /\ err.stage = "none"
    /\ err' = [err EXCEPT !.stage = "raised", !.exc = exc]
    /\ UNCHANGED <<clock, store, window, inflight, log, throttle, derived,
                   http, admin>>

\* The framework gives the exception to custom_exception_handler.
Handle ==
    /\ err.stage = "raised"
    /\ err' = [err EXCEPT !.stage = "handled",
                          !.result = CustomExceptionHandler(err.exc)]
    /\ UNCHANGED <<clock, store, window, inflight, log, throttle, derived,
                   http, admin>>

NextErrors ==
    \/ \E a \in NotiArgs : RaiseNoti(a)
    \/ \E exc \in ForeignExceptions : RaiseForeign(exc)
    \/ Handle

SpecErrors == Init /\ [][NextErrors]_vars

\* ------------------------------------------------- reading the call log
Calls == DOMAIN log

Returned(j) == log[j].status = "returned"

\* The dict call j returns when its caller passed limit l (lines 65-77).
Result(j, l) == Decision(log[j].count, l, log[j].now, window)

\* The calls on the key of call j that the store was asked to run before
\* call j, and those of them it did run.
Prev(j) == { i \in 1..(j - 1) : log[i].key = log[j].key }

PrevApplied(j) == { i \in Prev(j) : Returned(i) }

\* The batches that ran on the store key of call j before call j.
SameKeyBefore(j) ==
    { i \in 1..(j - 1) : log[i].rkey = log[j].rkey /\ Returned(i) }

\* The store key of call j was not deleted by its TTL between batch i and
\* batch j: every batch on it in between came before the TTL set by the
\* batch before it ran out.
Alive(i, j) ==
    \A y \in (i + 1)..j :
        (log[y].rkey = log[j].rkey /\ Returned(y)) =>
            \E x \in i..(y - 1) :
                /\ log[x].rkey = log[j].rkey
                /\ Returned(x)
                /\ log[y].execAt < log[x].execAt + window

\* The members the earlier batches left under the store key of call j.
Inserted(j) == { log[i].now : i \in { x \in SameKeyBefore(j) : Alive(x, j) } }

\* No call so far was delayed between reading the clock and its batch: the
\* store ran every batch in the second the call took as its timestamp.
Prompt == \A i \in Calls : log[i].execAt = log[i].now

\* The store entries that belong to rate-limit key b.
EntriesOf(s, b) ==
    LET mine == { rk \in DOMAIN s :
                    \E t \in Times : rk = RedisKey(b, t, window) }
    IN  [rk \in mine |-> s[rk]]

\* ----------------------------------------------------------------- claims
\* The claims speak of a fixed limit L: each formula is stated for every
\* limit in Limits, deciding all the calls of the run with that limit.
\* C1 and C3-C7 are stated for the runs in which no call is delayed (Prompt):
\* there the timestamp of a call is also the time the store ran its batch,
\* so what they say about timestamps is what the store saw.

\* C1: for every key and every interval of `window` consecutive seconds, at
\* most `limit` of the calls on that key whose timestamp lies in the
\* interval return allowed = true.
C1_AtMostLimitPerWindow ==
    Prompt =>
        \A l \in Limits, k \in Keys, t \in Times :
            Cardinality({ i \in Calls :
                /\ log[i].key = k
                /\ Returned(i)
                /\ Result(i, l).allowed
                /\ t <= log[i].now
                /\ log[i].now < t + window }) <= l

\* C2: the batch of a call runs as one unit: the count a call reads is the
\* number of entries left by all the batches that ran before it on its
\* store key (each whole, insert included), and the key holds exactly
\* those entries plus the call's own right after it.
C2_BatchAtomic ==
    \A j \in Calls :
        Returned(j) =>
            /\ log[j].count = Cardinality(Inserted(j))
            /\ log[j].cardAfter = Cardinality(Inserted(j) \cup {log[j].now})

\* C2 witness: two calls overlapped (the later batch belongs to a call that
\* had started before the earlier batch ran) and the later one counted the
\* earlier one's insert.
C2_Witness ==
    \E j \in Calls : \E i \in SameKeyBefore(j) :
        /\ Returned(j)
        /\ log[j].now < log[i].execAt
        /\ log[j].count = 1

\* C3: on a fresh key, `limit` consecutive calls at the same instant are
\* all allowed with remaining limit-1, limit-2, ..., 0 in call order.
C3_MonotonicDecline ==
    Prompt =>
        \A l \in Limits, j \in Calls :
            ( /\ Returned(j)
              /\ Cardinality(Prev(j)) < l
              /\ \A i \in Prev(j) : Returned(i) /\ log[i].now = log[j].now )
            => /\ Result(j, l).allowed
               /\ Result(j, l).remaining = l - Cardinality(Prev(j)) - 1

\* C4: after `limit` calls on a fresh key at one instant, the next call at
\* that instant is denied with remaining 0 and retry_after = window > 0.
C4_BoundaryDenial ==
    Prompt =>
        \A l \in Limits, j \in Calls :
            ( /\ Returned(j)
              /\ Cardinality(Prev(j)) = l
              /\ \A i \in Prev(j) : Returned(i) /\ log[i].now = log[j].now )
            => /\ ~Result(j, l).allowed
               /\ Result(j, l).remaining = 0
               /\ Result(j, l).retry_after = window
               /\ Result(j, l).retry_after > 0

\* C5: the count a call at time now decides on is the number of earlier
\* calls on the same key with timestamp greater than now - window.
C5_CountIsTrailingWindow ==
    Prompt =>
        \A j \in Calls :
            Returned(j) =>
                log[j].count =
                    Cardinality({ i \in PrevApplied(j) :
                                    log[i].now > log[j].now - window })

\* C6: every call, allowed or denied, adds exactly one entry: the key
\* holds one entry more than the call counted.
C6_OneEntryPerCall ==
    Prompt =>
        \A j \in Calls : Returned(j) => log[j].cardAfter = log[j].count + 1

\* C7: after a call on a key is denied at time t, every later call on that
\* key at t' with t' - t < window counts at least as much as the denied one.
C7_DeniedStillCounts ==
    Prompt =>
        \A l \in Limits, j \in Calls : \A i \in Prev(j) :
            ( /\ Returned(i) /\ Returned(j)
              /\ ~Result(i, l).allowed
              /\ log[j].now >= log[i].now
              /\ log[j].now - log[i].now < window )
            => log[j].count >= log[i].count

\* C8: a call made more than `window` seconds after every earlier call on
\* its key is allowed with remaining = limit - 1, however many came before.
C8_WindowExpiry ==
    \A l \in Limits, j \in Calls :
        ( /\ Returned(j)
          /\ \A i \in Prev(j) : log[i].now + window < log[j].now )
        => /\ Result(j, l).allowed
           /\ Result(j, l).remaining = l - 1

\* C8 witness: the key had been exhausted (an earlier call on it was
\* denied) and the call past the window is allowed again.
C8_Witness ==
    \E l \in Limits, j \in Calls :
        /\ Returned(j)
        /\ \E i \in Prev(j) : Returned(i) /\ ~Result(i, l).allowed
        /\ \A i \in Prev(j) : log[i].now + window < log[j].now
        /\ Result(j, l).allowed

\* C9: a call on one key leaves the stored entries of every other key as
\* they were, and a call decides on earlier calls on its own key only: the
\* first call on a key counts 0 and is allowed with remaining = limit - 1.
C9_FirstCallOnKey ==
    \A l \in Limits, j \in Calls :
        Returned(j) =>
            /\ log[j].count <= Cardinality(PrevApplied(j))
            /\ (Prev(j) = {}) =>
                   /\ Result(j, l).allowed
                   /\ Result(j, l).remaining = l - 1

C9_Frame ==
    \A b \in Keys :
        (Len(log') = Len(log) + 1 /\ log'[Len(log')].key # b)
            => EntriesOf(store', b) = EntriesOf(store, b)

C9_KeyIsolation == [](C9_FirstCallOnKey) /\ [][C9_Frame]_vars

\* C9 witness: one key is exhausted (a call on it was denied, its entries
\* are still stored) and the first call on the other key is allowed.
C9_Witness ==
    \E l \in Limits, j \in Calls :
        /\ Returned(j)
        /\ Prev(j) = {}
        /\ \E i \in 1..(j - 1) :
               /\ log[i].key # log[j].key
               /\ Returned(i)
               /\ ~Result(i, l).allowed
               /\ log[i].rkey \in DOMAIN store
        /\ Result(j, l).allowed

\* C10: when the store fails during the batch, is_allowed returns no
\* decision and the caller gets a service-unavailable failure.
C10_StoreFailureIsServiceUnavailable ==
    \A j \in Calls :
        (log[j].status = "raised") => log[j].exc = ServiceUnavailableError

\* The last batch that ran on the store key of call j is the one of call j.
LastOnKey(j) ==
    /\ Returned(j)
    /\ \A y \in (j + 1)..Len(log) : ~(log[y].rkey = log[j].rkey /\ Returned(y))

\* C20: after every is_allowed call the store key it wrote has a TTL of
\* `window` seconds: no rate-limit key is stored without a TTL that runs
\* out at most `window` seconds from now, and a key that gets no further
\* call is gone from the store `window` seconds after its last call.
C20_KeysExpire ==
    /\ \A rk \in DOMAIN store :
           /\ clock < store[rk].expireAt
           /\ store[rk].expireAt <= clock + window
    /\ \A j \in Calls :
           LastOnKey(j) =>
               IF clock < log[j].execAt + window
               THEN /\ log[j].rkey \in DOMAIN store
                    /\ store[log[j].rkey].expireAt = log[j].execAt + window
               ELSE log[j].rkey \notin DOMAIN store

\* C20 witness: a key that was written and then left alone has been removed.
C20_Witness ==
    \E j \in Calls :
        /\ LastOnKey(j)
        /\ log[j].cardAfter >= 1
        /\ clock >= log[j].execAt + window
        /\ log[j].rkey \notin DOMAIN store

\* C14: is_allowed called with limit < 1 or window < 1 fails fast: no call
\* made with such arguments returns a decision and none records an entry.
C14_InvalidArgsFailFast ==
    \A l \in ArgLimits :
        (l < 1 \/ window < 1) =>
            /\ \A j \in Calls : ~Returned(j)
            /\ DOMAIN store = {}

\* The seconds the claim gives for each period.
ClaimedSeconds(word) ==
    CASE word = "second" -> 1
      [] word = "minute" -> 60
      [] word = "hour"   -> 3600
      [] word = "day"    -> 86400
      [] word = "week"   -> 604800

ClaimedPeriods == {"second", "minute", "hour", "day", "week"}

\* The rate string is "<count>/<period>" for the count n and a period word.
IsRate(rate, n, word) == rate = Str(n) \o <<"/", word>>

Slashes(rate) == Cardinality({ i \in DOMAIN rate : rate[i] = "/" })

\* C15: a throttle built from "<count>/<period>" has limit = count and
\* window = 1, 60, 3600, 86400, 604800 for second, minute, hour, day, week
\* ("100/hour" gives 100 and 3600); a string without '/', with more than
\* one '/' or with another period raises during construction, so no
\* throttle that answers allow_request came from such a string.
C15_RateParsing ==
    /\ throttle.status = "ok" =>
           \E n \in (0 - 100)..100, word \in ClaimedPeriods :
               /\ IsRate(throttle.rate, n, word)
               /\ throttle.limit = n
               /\ throttle.window = ClaimedSeconds(word)
    /\ throttle.rate = <<"1", "0", "0", "/", "hour">> =>
           /\ throttle.status = "ok"
           /\ throttle.limit = 100
           /\ throttle.window = 3600
    /\ ( /\ throttle.status # "none"
         /\ \/ Slashes(throttle.rate) # 1
            \/ throttle.rate[Len(throttle.rate)] \notin ClaimedPeriods )
       => /\ throttle.status = "raised"
          /\ throttle.exc = ValueError
    /\ throttle.checked => throttle.status = "ok"

\* C15 witness: the throttle built from "100/hour" answered a request.
C15_Witness ==
    /\ throttle.rate = <<"1", "0", "0", "/", "hour">>
    /\ throttle.limit = 100
    /\ throttle.window = 3600
    /\ throttle.checked

\* Two requests come from the same actor: the same user, or the same
\* client address when neither is authenticated.
SameActor(r1, r2) ==
    /\ r1.auth = r2.auth
    /\ IF r1.auth THEN r1.id = r2.id ELSE r1.ident = r2.ident

\* C12: two scopes never derive the same rate-limit key for a request, so
\* the check of one scope is not counted by the check of another scope on
\* the same request.
C12_ScopesDisjoint ==
    \A i \in DOMAIN derived, j \in DOMAIN derived :
        ( /\ i < j
          /\ derived[i].req = derived[j].req
          /\ derived[i].scope # derived[j].scope )
        => /\ derived[i].key # derived[j].key
           /\ derived[j].count = 0

\* C13: within one scope, the same request in the same time bucket gives
\* the same store key, and requests of two different actors, on any method
\* and path, never give the same store key.
C13_KeysCollisionFree ==
    \A i \in DOMAIN derived, j \in DOMAIN derived :
        (i < j /\ derived[i].scope = derived[j].scope) =>
            /\ derived[i].req = derived[j].req
                   => derived[i].rkey = derived[j].rkey
            /\ ~SameActor(derived[i].req, derived[j].req)
                   => derived[i].rkey # derived[j].rkey

\* A middleware acts on the response in this step.
MwStep ==
    /\ http.stage = "response"
    /\ \/ http'.exceeded # http.exceeded
       \/ http'.decorated # http.decorated

\* C11: a request during whose rate check the store was unavailable is
\* answered with status 503 and the code service_unavailable.
C11_StoreFailureIs503 ==
    (http.stage = "done" /\ http.failed) =>
        /\ http.status = 503
        /\ "error.code" \in DOMAIN http.body.strs
        /\ http.body.strs["error.code"] = <<"service_unavailable">>

\* C16: a response leaves RateLimitHeadersMiddleware with X-RateLimit-Limit,
\* X-RateLimit-Remaining and X-RateLimit-Reset set to the limit, remaining
\* and reset_time of the decision the middleware asked the limiter for.
C16_HeadersOnEveryResponse ==
    [][ (http.stage = "response" /\ ~http.decorated /\ http'.decorated) =>
            LET info == Check(InfoKey(http.req))
            IN  /\ { "X-RateLimit-Limit", "X-RateLimit-Remaining",
                     "X-RateLimit-Reset" } \subseteq DOMAIN http'.headers
                /\ http'.headers["X-RateLimit-Limit"] = info.limit
                /\ http'.headers["X-RateLimit-Remaining"] = info.remaining
                /\ http'.headers["X-RateLimit-Reset"] = info.reset_time ]_vars

\* C17: the response to a denied request, the store having answered every
\* check made for it, carries a Retry-After header equal to the retry_after
\* of the decision that denied it.
C17_RetryAfterOnDenial ==
    (http.stage = "done" /\ http.denied /\ ~http.failed) =>
        /\ "Retry-After" \in DOMAIN http.headers
        /\ http.headers["Retry-After"] = http.decision.retry_after

\* C18: a denied request, the store having answered every check made for
\* it, is answered with status 429 and a body whose error member is an
\* object with the code rate_limit_exceeded, a message, and the retry_after,
\* limit, remaining and reset_time of the denying decision.
C18_DeniedBody ==
    (http.stage = "done" /\ http.denied /\ ~http.failed) =>
        /\ http.status = 429
        /\ {"error.code", "error.message"} \subseteq DOMAIN http.body.strs
        /\ http.body.strs["error.code"] = <<"rate_limit_exceeded">>
        /\ { "error.retry_after", "error.limit", "error.remaining",
             "error.reset_time" } \subseteq DOMAIN http.body.nums
        /\ http.body.nums["error.retry_after"] = http.decision.retry_after
        /\ http.body.nums["error.limit"] = http.decision.limit
        /\ http.body.nums["error.remaining"] = http.decision.remaining
        /\ http.body.nums["error.reset_time"] = http.decision.reset_time

\* C19: a middleware step on a response, the store having answered every
\* check made for it so far, leaves the Window Store as it found it.
C19_DecoratingOnlyReads ==
    [][ (MwStep /\ ~http.failed) => store' = store ]_vars

\* The step in which clear_rate_limit runs its DEL and returns.
DeleteStep == admin.pc = "enumerated" /\ admin'.pc = "done"

\* The calls the store ran after the last clear_rate_limit returned.
AfterClear == { j \in Calls : j > admin.last.at /\ Returned(j) }

\* C21: clear_rate_limit on a key that had no stored entry when it was
\* called, with no check running beside it, returns True and leaves the
\* store as it was.
C21_ClearOfAbsentKeyIsNoOp ==
    [][ ( /\ DeleteStep
          /\ Quiet
          /\ \A rk \in admin.keys : ~IsStoreKeyOf(rk, admin.key)
          /\ admin'.last.result )
        => store' = store ]_vars

C27_ClearFailureIsFalse ==
    admin.clears > 0 =>
        /\ admin.last.raised => ~admin.last.result
        /\ admin.last.result => ~admin.last.raised
        /\ admin.pc = "done" => admin.result = admin.last.result

\* C27 witness: KEYS found store keys and DEL raised.
C27_Witness ==
    /\ admin.pc = "done"
    /\ admin.last.raised
    /\ admin.last.keys # {}
    /\ ~admin.result

C22_SelectorsIndependent ==
    admin.pc \in {"done", "aborted"} =>
        /\ admin.options.ip # NotGiven
               => "ip" \in admin.cleared \cup admin.failed
        /\ admin.options.key # NotGiven
               => "key" \in admin.cleared \cup admin.failed

\* The code and the transport status the claim gives each error kind.
ClaimedKinds ==
    [ ValidationError         |-> [code |-> "validation_error", status |-> 400],
      AuthenticationError     |-> [code |-> "authentication_failed",
                                   status |-> 401],
      PermissionError         |-> [code |-> "permission_denied", status |-> 403],
      NotFoundError           |-> [code |-> "not_found", status |-> 404],
      ConflictError           |-> [code |-> "conflict", status |-> 409],
      RateLimitError          |-> [code |-> "rate_limit_exceeded",
                                   status |-> 429],
      ServiceUnavailableError |-> [code |-> "service_unavailable",
                                   status |-> 503] ]

\* C23: an error of one of the seven kinds, constructed with a custom detail
\* (and no status override), has that detail, the code and the status of its
\* kind, the retry_after it was given (rate limit) and the field errors it
\* was given (validation); the response made from it has the same status.
C23_ErrorKinds ==
    ( /\ err.stage # "none"
      /\ err.exc.family = "noti"
      /\ err.exc.class \in DOMAIN ClaimedKinds
      /\ err.args.detail.given
      /\ ~err.args.status_code.given )
    => /\ err.exc.detail = err.args.detail.value
       /\ err.exc.default_code = ClaimedKinds[err.exc.class].code
       /\ err.exc.status_code = ClaimedKinds[err.exc.class].status
       /\ err.exc.class = "RateLimitError"
              => err.exc.retry_after = err.args.retry_after
       /\ (err.exc.class = "ValidationError" /\ err.args.field_errors.given)
              => err.exc.field_errors = err.args.field_errors.value
       /\ err.stage = "handled"
              => err.result.status = ClaimedKinds[err.exc.class].status

\* C23 witness: RateLimitError("...", retry_after=60) was raised and handled.
C23_Witness ==
    /\ err.stage = "handled"
    /\ err.exc.class = "RateLimitError"
    /\ err.args.detail.given
    /\ err.exc.retry_after = Some(60)
    /\ err.result.status = 429

\* C24: whatever exception custom_exception_handler is given, what it
\* returns is an HTTP response.
C24_HandlerReturnsResponse ==
    err.stage = "handled" => err.result.kind = "JsonResponse"

\* C25: every decision has allowed exactly when count < limit, remaining =
\* limit - count - 1 when allowed and 0 when denied, 0 <= remaining <=
\* limit - 1, and the limit and window of the call.
C25_DecisionArithmetic ==
    \A l \in ArgLimits, j \in Calls :
        Returned(j) =>
            /\ Result(j, l).allowed <=> log[j].count < l
            /\ Result(j, l).remaining =
                   (IF log[j].count < l THEN l - log[j].count - 1 ELSE 0)
            /\ 0 <= Result(j, l).remaining
            /\ Result(j, l).remaining <= l - 1
            /\ Result(j, l).limit = l
            /\ Result(j, l).window = window

\* C28: a middleware whose rate check raises passes the response on with
\* the status, the body and the headers it came with.
C28_MiddlewareFailsOpen ==
    [][ (MwStep /\ http'.mw = "raised") =>
            /\ http'.status = http.status
            /\ http'.body = http.body
            /\ http'.headers = http.headers ]_vars

\* C28 witness: a denied request's 429 response went through a middleware
\* whose check raised, and left as it came.
C28_Witness ==
    /\ http.stage = "done"
    /\ http.mw = "raised"
    /\ http.denied
    /\ http.status = 429
    /\ http.body = ThrottledBody(http.decision.retry_after)

\* C29: every entry under a store key rate_limit:<key>:<b> has a timestamp t
\* with (t - W) \div W = b; while a store key exists no step removes an entry
\* from it, and of two calls under one store key that stayed alive the later
\* counts at least as many entries as the earlier.
C29_EntriesWithinBucket ==
    /\ [](\A rk \in DOMAIN store : \A e \in store[rk].zset :
             \E k \in Keys :
                 rk = <<"rate_limit", ":">> \o k \o <<":">>
                          \o Str((e.score - window) \div window))
    /\ [][ \A rk \in (DOMAIN store) \cap (DOMAIN store') :
               store[rk].zset \subseteq store'[rk].zset ]_vars
    /\ [](\A j \in Calls : \A i \in SameKeyBefore(j) :
             (Returned(j) /\ Alive(i, j)) => log[i].count <= log[j].count)

\* C29 witness: a call counted two entries, of two different seconds, under
\* its store key.
C29_Witness ==
    \E j \in Calls :
        /\ Returned(j)
        /\ log[j].count = 2
        /\ Cardinality(store[log[j].rkey].zset) >= 2

====
